---------------------------- MODULE Spec2Model ----------------------------
(***************************************************************************)
(* fc_metrics: a generator that reads a Rust source file holding the       *)
(* Firecracker metrics structures and prints Go boilerplate that declares, *)
(* registers and updates one prometheus gauge vector per metric group.     *)
(*                                                                         *)
(* A String is a sequence of one-character strings, so that the character  *)
(* level functions (strip_comment, to_lowercase, rust_field_name_to_go,    *)
(* trim) are computed as the code computes them.  A generated line is the  *)
(* format string of the format! call that produced it together with the    *)
(* arguments substituted into it.                                          *)
(***************************************************************************)
EXTENDS Integers, Sequences, FiniteSets, TLC

VARIABLES pc, syntax, struct_list, context, stdout, stderr, exit_code, outcome

vars == <<pc, syntax, struct_list, context, stdout, stderr, exit_code, outcome>>

(***************************************************************************)
(* Bounds of the model.                                                    *)
(***************************************************************************)
\* most top-level items in the parsed file
MaxItems == 3
\* most command-line arguments after the program name
MaxArgs == 2

(***************************************************************************)
(* Characters and strings.                                                 *)
(***************************************************************************)
Lowers == <<"a","b","c","d","e","f","g","h","i","j","k","l","m",
            "n","o","p","q","r","s","t","u","v","w","x","y","z">>
Uppers == <<"A","B","C","D","E","F","G","H","I","J","K","L","M",
            "N","O","P","Q","R","S","T","U","V","W","X","Y","Z">>

\* char::to_lowercase on one character
CharToLower(c) ==
    IF \E i \in DOMAIN Uppers : Uppers[i] = c
    THEN Lowers[CHOOSE i \in DOMAIN Uppers : Uppers[i] = c]
    ELSE c

\* char::to_uppercase on one character
CharToUpper(c) ==
    IF \E i \in DOMAIN Lowers : Lowers[i] = c
    THEN Uppers[CHOOSE i \in DOMAIN Lowers : Lowers[i] = c]
    ELSE c

IsWhitespace(c) == c = " "

RECURSIVE Concat(_)
\* the concatenation of a sequence of sequences
Concat(ss) == IF ss = <<>> THEN <<>> ELSE Head(ss) \o Concat(Tail(ss))

RECURSIVE Join(_, _)
\* [String]::join(sep)
Join(ss, sep) ==
    IF ss = <<>> THEN <<>>
    ELSE IF Len(ss) = 1 THEN Head(ss)
    ELSE Head(ss) \o sep \o Join(Tail(ss), sep)

RECURSIVE TrimStart(_)
TrimStart(s) ==
    IF s # <<>> /\ IsWhitespace(Head(s)) THEN TrimStart(Tail(s)) ELSE s

RECURSIVE TrimEnd(_)
TrimEnd(s) ==
    IF s # <<>> /\ IsWhitespace(s[Len(s)])
    THEN TrimEnd(SubSeq(s, 1, Len(s) - 1))
    ELSE s

\* str::trim
Trim(s) == TrimEnd(TrimStart(s))

RECURSIVE Split(_, _)
\* str::split(sep): the pieces between the separators, empty pieces kept
Split(s, sep) ==
    IF \E i \in DOMAIN s : s[i] = sep
    THEN LET i == CHOOSE k \in DOMAIN s :
                      s[k] = sep /\ \A j \in 1..(k - 1) : s[j] # sep
         IN  <<SubSeq(s, 1, i - 1)>> \o Split(SubSeq(s, i + 1, Len(s)), sep)
    ELSE <<s>>

\* strip_comment: pop the last character, then remove the byte range 0..=2.
\* String::replace_range panics when the range ends past the string.
strip_comment(s) ==
    LET popped == IF s = <<>> THEN s ELSE SubSeq(s, 1, Len(s) - 1)
    IN  IF Len(popped) < 3
        THEN [panicked |-> TRUE, s |-> <<>>]
        ELSE [panicked |-> FALSE, s |-> SubSeq(popped, 4, Len(popped))]

\* the character U+0060 (grave accent), which a TLA+ string cannot hold
Backtick == "U+0060"

\* json_tag: the tag json:"<s>" between two grave accents
json_tag(s) ==
    <<Backtick,"j","s","o","n",":","\"">> \o s \o <<"\"",Backtick>>

\* to_lowercase: the first character lowercased, the rest unchanged
to_lowercase(s) ==
    IF s = <<>> THEN <<>> ELSE <<CharToLower(Head(s))>> \o Tail(s)

\* to_uppercase: the first character uppercased, the rest unchanged
to_uppercase(s) ==
    IF s = <<>> THEN <<>> ELSE <<CharToUpper(Head(s))>> \o Tail(s)

\* rust_field_name_to_go: split on '_', uppercase each piece, join with ""
rust_field_name_to_go(s) ==
    LET pieces == Split(s, "_")
    IN  Join([i \in DOMAIN pieces |-> to_uppercase(pieces[i])], <<>>)

SharedMetric == <<"S","h","a","r","e","d","M","e","t","r","i","c">>
Uint64 == <<"u","i","n","t","6","4">>

\* go_var_type: SharedMetric becomes uint64, any other name is kept
go_var_type(s) == IF s = SharedMetric THEN Uint64 ELSE s

(***************************************************************************)
(* Generated lines: the format string and the arguments given to format!.  *)
(***************************************************************************)
Line(fmt, args) == [fmt |-> fmt, args |-> args]

FmtComment == "// {}"
FmtTypeOpen == "type {} struct {{"
FmtFieldComment == "    //{}"
FmtMember == "    {} {} {}"
FmtClose == "}}"
FmtBlank == ""
FmtDeclare ==
    "{} = prometheus.NewGaugeVec(prometheus.GaugeOpts{{ Namespace: fcMetricsNS, Name: \"{}\", Help: \"{}\", }}, []string{{\"item\"}}, )"
FmtRegister == "    prometheus.MustRegister({})"
FmtSetComment == "    // set metrics for {}"
FmtSet == "    {}.WithLabelValues(\"{}\").Set(float64(fm.{}.{}))"

\* RustStruct::metric_var_name
metric_var_name(self) == to_lowercase(self.name)

\* the lines pushed for one field of a struct declaration
MemberLines(f) ==
    [i \in DOMAIN f.comments |-> Line(FmtFieldComment, <<f.comments[i]>>)]
    \o <<Line(FmtMember, <<rust_field_name_to_go(f.var_name),
                           go_var_type(f.var_type),
                           json_tag(f.var_name)>>)>>

\* RustStruct::generate_struct_definition_code: vec after the pushes
generate_struct_definition_code(self, vec, comments) ==
    vec
    \o [i \in DOMAIN comments |-> Line(FmtComment, <<comments[i]>>)]
    \o <<Line(FmtTypeOpen, <<self.name>>)>>
    \o Concat([i \in DOMAIN self.fields |-> MemberLines(self.fields[i])])
    \o <<Line(FmtClose, <<>>), Line(FmtBlank, <<>>)>>

\* RustStruct::generate_declare_metric_code: vec after the pushes
generate_declare_metric_code(self, vec, name, help) ==
    vec \o <<Line(FmtDeclare, <<metric_var_name(self), name, help>>),
             Line(FmtBlank, <<>>)>>

\* RustStruct::generate_register_code: vec after the push
generate_register_code(self, vec) ==
    vec \o <<Line(FmtRegister, <<metric_var_name(self)>>)>>

\* RustStruct::generate_set_values_code: vec after the pushes
generate_set_values_code(self, vec, field_name) ==
    vec
    \o <<Line(FmtSetComment, <<self.name>>)>>
    \o [i \in DOMAIN self.fields |->
          Line(FmtSet, <<metric_var_name(self),
                         self.fields[i].var_name,
                         field_name,
                         rust_field_name_to_go(self.fields[i].var_name)>>)]
    \o <<Line(FmtBlank, <<>>)>>

(***************************************************************************)
(* parse_source_tree: the linker and the lowering.                         *)
(***************************************************************************)
RootName ==
    <<"F","i","r","e","c","r","a","c","k","e","r",
      "M","e","t","r","i","c","s">>

\* the four sequences, all empty, as parse_source_tree declares them
EmptyContext ==
    [metrics_var_declare_stmt |-> <<>>,
     metrics_register_stmt |-> <<>>,
     metrics_set_stmt |-> <<>>,
     metrics_struct_declare_stmt |-> <<>>]

\* mutant: a group's declaration gets the comments of the structure declared
GroupComments_OfStruct(f, metric_struct) == metric_struct.comments

\* the comments handed to the struct declaration of a metric group
GroupComments(f, metric_struct) == f.comments

\* the arm of the match for a field whose type is a key: the four pushes
LowerGroup(sl, f, ctx) ==
    LET metric_struct == sl[f.var_type]
        help == Trim(Join(metric_struct.comments, <<" ">>))
    IN  [metrics_struct_declare_stmt |->
             generate_struct_definition_code(
                 metric_struct, ctx.metrics_struct_declare_stmt,
                 GroupComments(f, metric_struct)),
         metrics_var_declare_stmt |->
             generate_declare_metric_code(
                 metric_struct, ctx.metrics_var_declare_stmt,
                 f.var_name, help),
         metrics_register_stmt |->
             generate_register_code(
                 metric_struct, ctx.metrics_register_stmt),
         metrics_set_stmt |->
             generate_set_values_code(
                 metric_struct, ctx.metrics_set_stmt,
                 rust_field_name_to_go(f.var_name))]

\* mutant: a field whose type is no key is registered all the same
LinkField_RegistersUnresolved(sl, f, ctx) ==
    IF f.var_type \in DOMAIN sl
    THEN LowerGroup(sl, f, ctx)
    ELSE [ctx EXCEPT !.metrics_register_stmt =
             Append(@, Line(FmtRegister, <<to_lowercase(f.var_type)>>))]

\* the body of the loop over the root's fields, for the field f
LinkField(sl, f, ctx) ==
    IF f.var_type \in DOMAIN sl THEN LowerGroup(sl, f, ctx) ELSE ctx

RECURSIVE LinkFields_Reversed(_, _, _)
\* mutant: the loop runs over the fields last to first
LinkFields_Reversed(sl, fields, ctx) ==
    IF fields = <<>> THEN ctx
    ELSE LinkFields_Reversed(sl, SubSeq(fields, 1, Len(fields) - 1),
                             LinkField(sl, fields[Len(fields)], ctx))

RECURSIVE LinkFields(_, _, _)
\* the loop over fields, in order, starting from the context ctx
LinkFields(sl, fields, ctx) ==
    IF fields = <<>> THEN ctx
    ELSE LinkFields(sl, Tail(fields), LinkField(sl, Head(fields), ctx))

\* mutant: the loop also runs over the fields of the root's sub-structures
LinkTargets_TwoLevels(sl, root_struct) ==
    root_struct.fields
    \o Concat([i \in DOMAIN root_struct.fields |->
                 IF root_struct.fields[i].var_type \in DOMAIN sl \ {RootName}
                 THEN sl[root_struct.fields[i].var_type].fields
                 ELSE <<>>])

\* the fields the loop runs over: the root's own
LinkTargets(sl, root_struct) == root_struct.fields

\* whether the lookup of the root structure finds it
RootFound(sl) == RootName \in DOMAIN sl

\* the root's own declaration, pushed before the loop
RootDeclared(root_struct) ==
    [EmptyContext EXCEPT !.metrics_struct_declare_stmt =
        generate_struct_definition_code(
            root_struct, <<>>, root_struct.comments)]

\* mutant: without the root, the first structure found stands in for it
parse_source_tree_AnyRoot(sl) ==
    IF DOMAIN sl # {}
    THEN LET root_struct ==
                 IF RootFound(sl) THEN sl[RootName]
                 ELSE sl[CHOOSE k \in DOMAIN sl : TRUE]
         IN  LinkFields(sl, LinkTargets(sl, root_struct),
                        RootDeclared(root_struct))
    ELSE EmptyContext

\* parse_source_tree
parse_source_tree(sl) ==
    IF RootFound(sl)
    THEN LET root_struct == sl[RootName]
         IN  LinkFields(sl, LinkTargets(sl, root_struct),
                        RootDeclared(root_struct))
    ELSE EmptyContext

(***************************************************************************)
(* parse_source_code: the extractor.                                       *)
(***************************************************************************)
\* whether an attribute is a doc attribute: its path's first segment is doc
IsDoc(attr) == attr.path = "doc"

\* the strip_comment results of the doc attributes, in order
Stripped(attrs) ==
    LET docs == SelectSeq(attrs, IsDoc)
    IN  [i \in DOMAIN docs |-> strip_comment(docs[i].tokens)]

\* whether collecting the comments of attrs panics
AttrsPanic(attrs) ==
    \E i \in DOMAIN Stripped(attrs) : Stripped(attrs)[i].panicked

\* the comments collected from attrs
AttrsComments(attrs) ==
    [i \in DOMAIN Stripped(attrs) |-> Stripped(attrs)[i].s]

\* mutant: the visibility of the field is not looked at
FieldRetained_AnyVisibility(nt) == nt.ty.kind = "Path"

\* whether the field loop reaches the push for the declared field nt
FieldRetained(nt) == nt.vis = "Public" /\ nt.ty.kind = "Path"

\* the StructField pushed for a retained declared field
MakeField(nt) ==
    [var_name |-> nt.ident,
     var_type |-> Head(nt.ty.segments),
     comments |-> AttrsComments(nt.attrs)]

\* mutant: a struct declaring no named field is inserted like any other
SkipsEmpty_Never(item) == FALSE

\* whether a struct with named fields is skipped for declaring none
SkipsEmpty(item) == Len(item.named) = 0

\* whether the item reaches struct_list.insert
Inserted(item) ==
    item.kind = "Struct" /\ item.fields = "Named" /\ ~SkipsEmpty(item)

\* the RustStruct inserted for the item
MakeStruct(item) ==
    LET kept == SelectSeq(item.named, FieldRetained)
    IN  [name |-> item.ident,
         comments |-> AttrsComments(item.attrs),
         fields |-> [i \in DOMAIN kept |-> MakeField(kept[i])]]

\* whether processing the item panics in strip_comment
ItemPanics(item) ==
    /\ item.kind = "Struct"
    /\ \/ AttrsPanic(item.attrs)
       \/ /\ Inserted(item)
          /\ \E i \in DOMAIN item.named :
                FieldRetained(item.named[i]) /\ AttrsPanic(item.named[i].attrs)

RECURSIVE ExtractItems(_, _)
\* the loop over the items: the map after the items, inserted in file order
ExtractItems(items, sl) ==
    IF items = <<>> THEN sl
    ELSE LET item == Head(items)
         IN  ExtractItems(Tail(items),
                 IF Inserted(item)
                 THEN (item.ident :> MakeStruct(item))
                      @@ [k \in DOMAIN sl \ {item.ident} |-> sl[k]]
                 ELSE sl)

\* parse_source_code: the map, or a panic raised on the way
parse_source_code(file) ==
    IF \E i \in DOMAIN file : ItemPanics(file[i])
    THEN [panicked |-> TRUE, struct_list |-> <<>>]
    ELSE [panicked |-> FALSE, struct_list |-> ExtractItems(file, <<>>)]

(***************************************************************************)
(* render: the fixed template, its four loops, and the substitution.       *)
(***************************************************************************)
Text(lines) == [kind |-> "text", text |-> lines, slot |-> ""]
ForLine(slot) == [kind |-> "for", text |-> <<>>, slot |-> slot]

TEMPLATE ==
    << Text(<<"// Copyright (c) 2020 xxx.yyy ",
              "//",
              "// SPDX-License-Identifier: Apache-2.0",
              "//",
              "// WARNING: This file is auto-generated - DO NOT EDIT!",
              "",
              "package virtcontainers",
              "",
              "import (",
              "    \"github.com/prometheus/client_golang/prometheus\"",
              ")",
              "",
              "const fcMetricsNS = \"kata_firecracker\"",
              "",
              "// prometheus metrics Firecracker exposed.",
              "var (">>),
       ForLine("metrics_var_declare_stmt"),
       Text(<<")",
              "",
              "// registerFirecrackerMetrics register all metrics to prometheus.",
              "func registerFirecrackerMetrics() {">>),
       ForLine("metrics_register_stmt"),
       Text(<<"}",
              "",
              "// updateFirecrackerMetrics update all metrics to the latest values.",
              "func updateFirecrackerMetrics(fm *FirecrackerMetrics) {">>),
       ForLine("metrics_set_stmt"),
       Text(<<"}", "">>),
       ForLine("metrics_struct_declare_stmt"),
       Text(<<"">>) >>

\* the lines one template segment renders to; a loop prints each element
Rendered(seg, ctx) ==
    IF seg.kind = "text"
    THEN [i \in DOMAIN seg.text |-> Line(seg.text[i], <<>>)]
    ELSE ctx[seg.slot]

\* render: the text printed, or the failure of a loop over an unknown field
render(ctx) ==
    IF \A i \in DOMAIN TEMPLATE :
          TEMPLATE[i].kind = "for" => TEMPLATE[i].slot \in DOMAIN ctx
    THEN [ok |-> TRUE,
          rendered |-> Concat([i \in DOMAIN TEMPLATE |-> Rendered(TEMPLATE[i], ctx)])]
    ELSE [ok |-> FALSE, rendered |-> <<>>]

(***************************************************************************)
(* The files the parser can hand over: every sequence of at most MaxItems  *)
(* items drawn from a pool of declarations.  The pool holds the root with  *)
(* resolving, unresolving, repeated and self-referring field types, two    *)
(* sub-structures whose names differ in the case of the first character,   *)
(* non-public and non-path-typed fields, structs without named fields, doc *)
(* attributes of the three token shapes, and an item that is no struct.    *)
(***************************************************************************)
Net == <<"N","e","t">>
net == <<"n","e","t">>
Inner == <<"I","n","n","e","r">>

\* #[doc = "<text>"], the form of a /// comment
Doc(text) == [path |-> "doc", tokens |-> <<"=", " ", "\"">> \o text \o <<"\"">>]
\* #[doc]
DocBare == [path |-> "doc", tokens |-> <<>>]
\* #[doc(hidden)]
DocHidden == [path |-> "doc", tokens |-> <<"(","h","i","d","d","e","n",")">>]
\* #[derive(Default)]
Derive ==
    [path |-> "derive", tokens |-> <<"(","D","e","f","a","u","l","t",")">>]

PathTy(segments) == [kind |-> "Path", segments |-> segments]
RefTy == [kind |-> "Reference", segments |-> <<>>]
ArrayTy == [kind |-> "Array", segments |-> <<>>]

Field(vis, attrs, ident, ty) ==
    [vis |-> vis, attrs |-> attrs, ident |-> ident, ty |-> ty]

NamedStruct(attrs, ident, named) ==
    [kind |-> "Struct", attrs |-> attrs, ident |-> ident,
     fields |-> "Named", named |-> named]

TupleStruct(attrs, ident) ==
    [kind |-> "Struct", attrs |-> attrs, ident |-> ident,
     fields |-> "Unnamed", named |-> <<>>]

FnItem ==
    [kind |-> "Fn", attrs |-> <<>>, ident |-> <<"m","a","i","n">>,
     fields |-> "Unit", named |-> <<>>]

RootA ==
    NamedStruct(<<Doc(<<" ","r","o","o","t">>)>>, RootName,
        << Field("Public", <<Doc(<<" ","d","e","v">>)>>,
                 <<"n","e","t","_","d","e","v">>, PathTy(<<Net>>)),
           Field("Public", <<>>, <<"v","m","m">>, PathTy(<<net>>)) >>)

RootB ==
    NamedStruct(<<>>, RootName,
        << Field("Public", <<>>, <<"m","e">>, PathTy(<<RootName>>)),
           Field("Public", <<Doc(<<" ","a">>)>>, <<"a">>, PathTy(<<Net>>)),
           Field("Public", <<>>, <<"b">>, PathTy(<<Net>>)),
           Field("Public", <<>>, <<"x">>, PathTy(<<SharedMetric>>)),
           Field("Inherited", <<>>, <<"p">>, PathTy(<<net>>)),
           Field("Public", <<>>, <<"r">>, RefTy) >>)

NetA ==
    NamedStruct(<<Doc(<<" ","N","e","t">>), Derive, Doc(<<"h","e","l","p"," ">>)>>,
        Net,
        << Field("Public", <<Doc(<<" ","r","x">>)>>,
                 <<"r","x","_","c","o","u","n","t">>, PathTy(<<SharedMetric>>)),
           Field("Public", <<>>, <<"s","u","b">>, PathTy(<<net, Inner>>)),
           Field("Crate", <<DocBare>>, <<"s","e","c","r","e","t">>,
                 PathTy(<<SharedMetric>>)),
           Field("Public", <<>>, <<"a","r","r">>, ArrayTy) >>)

NetPrivate ==
    NamedStruct(<<>>, Net,
        << Field("Inherited", <<>>, <<"h","i","d","d","e","n">>,
                 PathTy(<<SharedMetric>>)) >>)

netEmpty == NamedStruct(<<Doc(<<" ","e">>)>>, net, <<>>)

NetTuple == TupleStruct(<<Doc(<<" ","t">>)>>, Net)

netA ==
    NamedStruct(<<Doc(<<" ","l","o","w">>)>>, net,
        << Field("Public", <<>>, <<"t","x">>, PathTy(<<SharedMetric>>)),
           Field("Public", <<>>, <<"b","a","c","k">>, PathTy(<<RootName>>)) >>)

netHidden ==
    NamedStruct(<<DocHidden>>, net,
        << Field("Public", <<>>, <<"t","x">>, PathTy(<<SharedMetric>>)) >>)

netBare ==
    NamedStruct(<<DocBare>>, net,
        << Field("Public", <<>>, <<"t","x">>, PathTy(<<SharedMetric>>)) >>)

netFieldBare ==
    NamedStruct(<<>>, net,
        << Field("Public", <<DocBare>>, <<"t","x">>, PathTy(<<SharedMetric>>)) >>)

ItemPool ==
    {RootA, RootB, NetA, NetPrivate, netEmpty, NetTuple,
     netA, netHidden, netBare, netFieldBare, FnItem}

Files == UNION {[1..n -> ItemPool] : n \in 0..MaxItems}

(***************************************************************************)
(* The run: main and try_main.                                             *)
(***************************************************************************)
\* process::exit(1) in main
ExitFailure == 1

MsgUsage == "Usage: fc-metrics-generator path/to/filename.rs"
MsgReadFile == "Failed to read file: {}"
MsgParseError == "Failed to parse source file: {}"
MsgRenderError == "Failed to render source file: {}"
MsgPanic == "thread 'main' panicked"

Init ==
    /\ pc = "args"
    /\ syntax = <<>>
    /\ struct_list = <<>>
    /\ context = EmptyContext
    /\ stdout = <<>>
    /\ stderr = <<>>
    /\ exit_code = -1
    /\ outcome = "Running"

\* main on Err(error): the message on stderr, then process::exit(1)
Fail(error, msg) ==
    /\ pc' = "failed"
    /\ outcome' = error
    /\ stderr' = Append(stderr, msg)
    /\ exit_code' = ExitFailure

\* exactly one argument after the program name
ArgsOk ==
    /\ pc = "args"
    /\ \E argc \in 0..MaxArgs : argc = 1
    /\ pc' = "read"
    /\ UNCHANGED <<syntax, struct_list, context, stdout, stderr, exit_code, outcome>>

\* no argument, or more than one
ArgsBad ==
    /\ pc = "args"
    /\ \E argc \in 0..MaxArgs : argc # 1
    /\ Fail("IncorrectUsage", MsgUsage)
    /\ UNCHANGED <<syntax, struct_list, context, stdout>>

\* fs::read_to_string returns the text
ReadOk ==
    /\ pc = "read"
    /\ pc' = "parse"
    /\ UNCHANGED <<syntax, struct_list, context, stdout, stderr, exit_code, outcome>>

\* fs::read_to_string fails
ReadFail ==
    /\ pc = "read"
    /\ Fail("ReadFile", MsgReadFile)
    /\ UNCHANGED <<syntax, struct_list, context, stdout>>

\* syn::parse_file returns the file's items
ParseOk ==
    /\ pc = "parse"
    /\ \E file \in Files : syntax' = file
    /\ pc' = "extract"
    /\ UNCHANGED <<struct_list, context, stdout, stderr, exit_code, outcome>>

\* syn::parse_file fails
ParseFail ==
    /\ pc = "parse"
    /\ Fail("ParseError", MsgParseError)
    /\ UNCHANGED <<syntax, struct_list, context, stdout>>

\* parse_source_code returns the map
Extract ==
    /\ pc = "extract"
    /\ ~parse_source_code(syntax).panicked
    /\ struct_list' = parse_source_code(syntax).struct_list
    /\ pc' = "link"
    /\ UNCHANGED <<syntax, context, stdout, stderr, exit_code, outcome>>

\* parse_source_code panics in strip_comment: the runtime prints the panic
\* message and the process ends with the status of a panic, 101
ExtractPanic ==
    /\ pc = "extract"
    /\ parse_source_code(syntax).panicked
    /\ pc' = "failed"
    /\ outcome' = "Panic"
    /\ stderr' = Append(stderr, MsgPanic)
    /\ exit_code' = 101
    /\ UNCHANGED <<syntax, struct_list, context, stdout>>

\* parse_source_tree returns the Context
Link ==
    /\ pc = "link"
    /\ context' = parse_source_tree(struct_list)
    /\ pc' = "render"
    /\ UNCHANGED <<syntax, struct_list, stdout, stderr, exit_code, outcome>>

\* render, then the end of try_main and main: on Ok the text is printed and
\* main returns; on Err nothing is printed and the error is reported
Render ==
    /\ pc = "render"
    /\ IF render(context).ok
       THEN /\ stdout' = stdout \o render(context).rendered
            /\ pc' = "exited"
            /\ outcome' = "Success"
            /\ exit_code' = 0
            /\ UNCHANGED stderr
       ELSE /\ Fail("RenderError", MsgRenderError)
            /\ UNCHANGED stdout
    /\ UNCHANGED <<syntax, struct_list, context>>

Next ==
    \/ ArgsOk
    \/ ArgsBad
    \/ ReadOk
    \/ ReadFail
    \/ ParseOk
    \/ ParseFail
    \/ Extract
    \/ ExtractPanic
    \/ Link
    \/ Render

Spec == Init /\ [][Next]_vars

(***************************************************************************)
(* Vocabulary of the properties.                                           *)
(***************************************************************************)
\* parse_source_code has returned the map
Extracted == pc \in {"link", "render", "exited"}

\* parse_source_tree has returned the Context
Linked == pc \in {"render", "exited"}

RootPresent == RootName \in DOMAIN struct_list

\* the arguments of the lines of seq that were made with the format fmt
ArgsOf(seq, fmt) ==
    LET Made(l) == l.fmt = fmt
        made == SelectSeq(seq, Made)
    IN  [i \in DOMAIN made |-> made[i].args]

\* the positions in seq of the lines made with the format fmt, ascending
PositionsOf(seq, fmt) ==
    LET Made(i) == seq[i].fmt = fmt
    IN  SelectSeq([i \in DOMAIN seq |-> i], Made)

\* the metric groups: the root fields whose type is a key, in field order,
\* each with the structure its type names
Groups ==
    LET Resolves(f) == f.var_type \in DOMAIN struct_list
        fs == SelectSeq(struct_list[RootName].fields, Resolves)
    IN  [i \in DOMAIN fs |-> [field |-> fs[i], struct |-> struct_list[fs[i].var_type]]]

\* the declaration of the structure named S that the map holds: the last
\* struct item of that name that declares named fields
WinningDecl(S) ==
    LET Declares(i) ==
            /\ syntax[i].kind = "Struct"
            /\ syntax[i].fields = "Named"
            /\ syntax[i].ident = S
            /\ syntax[i].named # <<>>
        last == CHOOSE i \in DOMAIN syntax :
                    Declares(i) /\ \A j \in DOMAIN syntax : Declares(j) => j <= i
    IN  syntax[last]

HasWinningDecl(S) ==
    \E i \in DOMAIN syntax :
        /\ syntax[i].kind = "Struct"
        /\ syntax[i].fields = "Named"
        /\ syntax[i].ident = S
        /\ syntax[i].named # <<>>

PublicPath(nt) == nt.vis = "Public" /\ nt.ty.kind = "Path"

PairwiseDistinct(seq) ==
    \A i, j \in DOMAIN seq : i # j => seq[i] # seq[j]

\* the lines of the fixed skeleton, in order
Skeleton ==
    LET texts == Concat([i \in DOMAIN TEMPLATE |-> TEMPLATE[i].text])
    IN  [i \in DOMAIN texts |-> Line(texts[i], <<>>)]

AllLines(ctx) ==
    ctx.metrics_var_declare_stmt \o ctx.metrics_register_stmt
    \o ctx.metrics_set_stmt \o ctx.metrics_struct_declare_stmt

(***************************************************************************)
(* C1: when the map holds no FirecrackerMetrics entry, whatever else it    *)
(* holds, the Context has all four sequences empty, no error is raised,    *)
(* and the run renders the fixed skeleton alone and exits successfully.    *)
(***************************************************************************)
C1_RootAbsentEmptyContext ==
    /\ outcome = "RenderError" => RootPresent
    /\ (Extracted /\ ~RootPresent) =>
          /\ Linked => context = EmptyContext
          /\ pc = "exited" =>
                /\ outcome = "Success"
                /\ exit_code = 0
                /\ stderr = <<>>
                /\ stdout = Skeleton

C1_Witness ==
    /\ pc = "exited"
    /\ ~RootPresent
    /\ Cardinality(DOMAIN struct_list) >= 2

(***************************************************************************)
(* C2 as claimed: no statement of any of the four sequences, the struct    *)
(* declarations included, refers to a root field whose type is no key.     *)
(***************************************************************************)
C2_NoStatementNamesUnresolved ==
    (Linked /\ RootPresent) =>
        \A k \in DOMAIN struct_list[RootName].fields :
            LET f == struct_list[RootName].fields[k]
                all == AllLines(context)
            IN  f.var_type \notin DOMAIN struct_list =>
                    \A i \in DOMAIN all : \A a \in DOMAIN all[i].args :
                        all[i].args[a] \notin
                            {f.var_name, rust_field_name_to_go(f.var_name),
                             json_tag(f.var_name)}

(***************************************************************************)
(* C2 as amended: a root field whose type is no key yields no MetricGroup: *)
(* the variable declarations, the registrations, the update blocks and     *)
(* the struct declarations after the root's own are exactly one per root   *)
(* field whose type is a key, and each variable declaration and update     *)
(* statement names such a field.  The unresolved field is still a member   *)
(* of the root structure's own declaration.                                *)
(***************************************************************************)
C2_UnresolvedYieldsNoGroup ==
    (Linked /\ RootPresent) =>
        LET fields == struct_list[RootName].fields
            resolved == {k \in DOMAIN fields :
                            fields[k].var_type \in DOMAIN struct_list}
            n == Cardinality(resolved)
            declared == ArgsOf(context.metrics_var_declare_stmt, FmtDeclare)
            sets == ArgsOf(context.metrics_set_stmt, FmtSet)
        IN  /\ Len(declared) = n
            /\ Len(context.metrics_var_declare_stmt) = 2 * n
            /\ Len(context.metrics_register_stmt) = n
            /\ Len(ArgsOf(context.metrics_set_stmt, FmtSetComment)) = n
            /\ Len(ArgsOf(context.metrics_struct_declare_stmt, FmtTypeOpen)) = n + 1
            /\ \A i \in DOMAIN declared :
                  \E k \in resolved : declared[i][2] = fields[k].var_name
            /\ \A i \in DOMAIN sets :
                  \E k \in resolved :
                      sets[i][3] = rust_field_name_to_go(fields[k].var_name)
            /\ \A k \in DOMAIN fields :
                  \E i \in DOMAIN context.metrics_struct_declare_stmt :
                      /\ context.metrics_struct_declare_stmt[i].fmt = FmtMember
                      /\ context.metrics_struct_declare_stmt[i].args[3]
                            = json_tag(fields[k].var_name)

C2_Witness ==
    /\ Linked
    /\ RootPresent
    /\ \E k \in DOMAIN struct_list[RootName].fields :
          struct_list[RootName].fields[k].var_type \notin DOMAIN struct_list
    /\ Len(Groups) >= 1

C4_RetainedHasField ==
    Extracted => \A S \in DOMAIN struct_list : struct_list[S].fields # <<>>

(***************************************************************************)
(* C4 as amended: the keys of the map are exactly the names of the struct  *)
(* items that declare at least one named field, whatever the visibility    *)
(* and type of those fields; a declaration with no named field inserts     *)
(* nothing.  (The fields sequence kept may be empty.)                      *)
(***************************************************************************)
C4_RetainedDeclaresField ==
    Extracted =>
        /\ \A S \in DOMAIN struct_list :
              HasWinningDecl(S) /\ struct_list[S].name = S
        /\ \A i \in DOMAIN syntax :
              (/\ syntax[i].kind = "Struct"
               /\ syntax[i].fields = "Named"
               /\ syntax[i].named # <<>>) => syntax[i].ident \in DOMAIN struct_list

C4_Witness ==
    /\ Extracted
    /\ \E S \in DOMAIN struct_list : struct_list[S].fields = <<>>
    /\ \E i \in DOMAIN syntax :
          /\ syntax[i].kind = "Struct"
          /\ syntax[i].fields = "Named"
          /\ syntax[i].named = <<>>
          /\ syntax[i].ident \notin DOMAIN struct_list

(***************************************************************************)
(* C5: a doc attribute of the token form = "<text>" yields exactly <text>; *)
(* a doc attribute of any other token form is ignored: it adds no comment  *)
(* and never aborts the run.                                               *)
(***************************************************************************)
C5_MalformedDocIgnored ==
    LET WellFormed(attr) ==
            /\ attr.path = "doc"
            /\ Len(attr.tokens) >= 4
            /\ SubSeq(attr.tokens, 1, 3) = <<"=", " ", "\"">>
            /\ attr.tokens[Len(attr.tokens)] = "\""
        Texts(attrs) ==
            LET good == SelectSeq(attrs, WellFormed)
            IN  [i \in DOMAIN good |->
                    SubSeq(good[i].tokens, 4, Len(good[i].tokens) - 1)]
    IN  /\ outcome # "Panic"
        /\ Extracted =>
              \A S \in DOMAIN struct_list :
                  struct_list[S].comments = Texts(WinningDecl(S).attrs)

(***************************************************************************)
(* C6: linking resolves one level only: struct declarations, update        *)
(* blocks and registrations are made for the root and for the structures   *)
(* named by the type of one of the root's own fields, at most one group    *)
(* per root field, also when the types refer to each other in a cycle.     *)
(***************************************************************************)
C6_OneLevelOnly ==
    (Linked /\ RootPresent) =>
        LET fields == struct_list[RootName].fields
            rootTypes == {fields[k].var_type : k \in DOMAIN fields}
            headers == ArgsOf(context.metrics_struct_declare_stmt, FmtTypeOpen)
            blocks == ArgsOf(context.metrics_set_stmt, FmtSetComment)
            registered == ArgsOf(context.metrics_register_stmt, FmtRegister)
        IN  /\ \A i \in DOMAIN headers : headers[i][1] \in {RootName} \cup rootTypes
            /\ \A i \in DOMAIN blocks : blocks[i][1] \in rootTypes
            /\ \A i \in DOMAIN registered :
                  \E t \in rootTypes : registered[i][1] = to_lowercase(t)
            /\ Len(registered) <= Len(fields)
            /\ Len(blocks) <= Len(fields)
            /\ Len(headers) <= Len(fields) + 1
            /\ Len(ArgsOf(context.metrics_var_declare_stmt, FmtDeclare)) <= Len(fields)

C6_Witness ==
    /\ Linked
    /\ RootPresent
    /\ \E k \in DOMAIN struct_list[RootName].fields :
          struct_list[RootName].fields[k].var_type = RootName
    /\ \E S \in DOMAIN struct_list :
          /\ S # RootName
          /\ \A k \in DOMAIN struct_list[RootName].fields :
                struct_list[RootName].fields[k].var_type # S
          /\ \E g \in DOMAIN Groups :
                \E j \in DOMAIN Groups[g].struct.fields :
                    Groups[g].struct.fields[j].var_type = S

(***************************************************************************)
(* C7: every run ends in exactly one of success, IncorrectUsage, ReadFile, *)
(* ParseError and RenderError; a failing run exits with code 1, with a     *)
(* message on the error stream and nothing on standard output.             *)
(***************************************************************************)
C7_FiveOutcomes ==
    /\ pc \in {"exited", "failed"} =>
          outcome \in {"Success", "IncorrectUsage", "ReadFile",
                       "ParseError", "RenderError"}
    /\ pc = "exited" => outcome = "Success" /\ exit_code = 0
    /\ pc = "failed" =>
          /\ outcome # "Success"
          /\ exit_code = ExitFailure
          /\ stderr # <<>>
          /\ stdout = <<>>

\* the comment lines right before position i of seq are exactly cs, in order
PrecededBy(seq, i, cs) ==
    /\ i - Len(cs) >= 1
    /\ \A k \in DOMAIN cs : seq[i - Len(cs) + k - 1] = Line(FmtComment, <<cs[k]>>)
    /\ i - Len(cs) = 1 \/ seq[i - Len(cs) - 1].fmt # FmtComment

(***************************************************************************)
(* C8 as claimed: every generated struct declaration, the root's and each  *)
(* group's, is preceded by the comments of the structure being declared.   *)
(***************************************************************************)
C8_PrecededByOwnComments ==
    (Linked /\ RootPresent) =>
        LET seq == context.metrics_struct_declare_stmt
            at == PositionsOf(seq, FmtTypeOpen)
        IN  /\ Len(at) = Len(Groups) + 1
            /\ PrecededBy(seq, at[1], struct_list[RootName].comments)
            /\ \A g \in DOMAIN Groups :
                  PrecededBy(seq, at[g + 1], Groups[g].struct.comments)

(***************************************************************************)
(* C8 as amended: the root's declaration is preceded by the root's own     *)
(* comments; the declaration of a group's structure is preceded by the     *)
(* comments of the root field that names it, and by no other comment.      *)
(***************************************************************************)
C8_PrecededByFieldComments ==
    (Linked /\ RootPresent) =>
        LET seq == context.metrics_struct_declare_stmt
            at == PositionsOf(seq, FmtTypeOpen)
        IN  /\ Len(at) = Len(Groups) + 1
            /\ PrecededBy(seq, at[1], struct_list[RootName].comments)
            /\ \A g \in DOMAIN Groups :
                  /\ seq[at[g + 1]].args = <<Groups[g].struct.name>>
                  /\ PrecededBy(seq, at[g + 1], Groups[g].field.comments)

C8_Witness ==
    /\ Linked
    /\ RootPresent
    /\ \E g \in DOMAIN Groups :
          /\ Groups[g].field.comments # <<>>
          /\ Groups[g].struct.comments # <<>>
          /\ Groups[g].field.comments # Groups[g].struct.comments

(***************************************************************************)
(* C9: the four sequences grow in lockstep in the order of the root's      *)
(* fields: with groups g1..gn, the k-th registration registers the         *)
(* variable of gk, the k-th variable declaration declares it, the k-th     *)
(* update block is commented with gk's structure name, and the struct      *)
(* declarations are the root's and then those of g1..gn.                   *)
(***************************************************************************)
C9_Lockstep ==
    (Linked /\ RootPresent) =>
        LET n == Len(Groups)
            Var(k) == to_lowercase(Groups[k].struct.name)
            declared == ArgsOf(context.metrics_var_declare_stmt, FmtDeclare)
            blocks == ArgsOf(context.metrics_set_stmt, FmtSetComment)
            headers == ArgsOf(context.metrics_struct_declare_stmt, FmtTypeOpen)
        IN  /\ context.metrics_register_stmt =
                  [k \in 1..n |-> Line(FmtRegister, <<Var(k)>>)]
            /\ Len(declared) = n
            /\ \A k \in 1..n :
                  /\ declared[k][1] = Var(k)
                  /\ declared[k][2] = Groups[k].field.var_name
            /\ blocks = [k \in 1..n |-> <<Groups[k].struct.name>>]
            /\ headers = <<<<RootName>>>> \o [k \in 1..n |-> <<Groups[k].struct.name>>]

C9_Witness ==
    /\ Linked
    /\ RootPresent
    /\ Len(Groups) >= 2
    /\ Groups[1].struct.name # Groups[2].struct.name
    /\ to_lowercase(Groups[1].struct.name) # to_lowercase(Groups[2].struct.name)

(***************************************************************************)
(* C10: the variables declared are pairwise distinct, no variable is       *)
(* registered twice and no struct name is declared twice.                  *)
(***************************************************************************)
C10_NamesDistinct ==
    Linked =>
        /\ PairwiseDistinct(
              [i \in DOMAIN ArgsOf(context.metrics_var_declare_stmt, FmtDeclare) |->
                  ArgsOf(context.metrics_var_declare_stmt, FmtDeclare)[i][1]])
        /\ PairwiseDistinct(context.metrics_register_stmt)
        /\ PairwiseDistinct(ArgsOf(context.metrics_struct_declare_stmt, FmtTypeOpen))

=============================================================================
